---- MODULE Spec2Model ----
(***************************************************************************)
(* Model of the product similarity search: the ingestion script            *)
(* (relevant_shop-main/ingest.py), the query service                       *)
(* (relevant_shop-main/main.py) and the embedding provider (embeddings.py).*)
(*                                                                         *)
(* Strings that the code normalises (product names, queries) are sequences *)
(* of one-character strings, so that lower() and strip() are computed.     *)
(* The persisted Chroma collection is the sequence of the metadata of its  *)
(* entries, in insertion order.  The embedding vectors are abstracted: the *)
(* distance order of the entries for a query is an input of the search.    *)
(***************************************************************************)
EXTENDS Integers, Sequences, FiniteSets, TLC

VARIABLES
    store,        \* the persist_directory: [exists, docs]
    VECTORSTORE,  \* main.py's module-level handle: "none" or "Ready"
    pc,           \* position of the ingest process inside the rebuild
    documents,    \* the documents argument of the rebuild in flight
    rebuild,      \* what the last rebuild was given and how it ended
    loaded,       \* what the last load_vectorstore call saw and returned
    search        \* what the last search_products call was given and returned

vars == <<store, VECTORSTORE, pc, documents, rebuild, loaded, search>>

(***************************************************************************)
(* Bounds                                                                  *)
(***************************************************************************)
MaxK == 3
MaxDocs == 3
MaxRecords == 2

Min(a, b) == IF a < b THEN a ELSE b

(***************************************************************************)
(* str.lower() and str.strip()                                             *)
(***************************************************************************)
LowerChar(c) ==
    CASE c = "A" -> "a"
      [] c = "B" -> "b"
      [] OTHER -> c

Lower(s) == [i \in DOMAIN s |-> LowerChar(s[i])]

RECURSIVE LStrip(_)
LStrip(s) ==
    IF s # <<>> /\ Head(s) = " " THEN LStrip(Tail(s)) ELSE s

RECURSIVE RStrip(_)
RStrip(s) ==
    IF s # <<>> /\ s[Len(s)] = " " THEN RStrip(SubSeq(s, 1, Len(s) - 1)) ELSE s

Strip(s) == RStrip(LStrip(s))

\* main.py:88 and main.py:94: x.lower().strip()
Normalize(s) == Strip(Lower(s))

(***************************************************************************)
(* Product records: dicts in which any key may be missing.                 *)
(***************************************************************************)
Products ==
    { [id |-> "1", name |-> <<"a">>, category |-> "phones"],
      [id |-> "2", name |-> <<"A", " ">>],
      [id |-> "3", name |-> <<"b">>],
      [name |-> <<"a">>],
      [id |-> "4"] }

\* dict.get(key, default)
Get(product, key, default) ==
    IF key \in DOMAIN product THEN product[key] ELSE default

SeqsUpTo(S, n) == UNION { [1..m -> S] : m \in 0..n }

\* The extracted fields are stripped (ingest.py:46, 51, 56, 61)
ParsedFields(product) ==
    [key \in DOMAIN product |->
        IF key = "name" THEN Strip(product[key]) ELSE product[key]]

\* ingest.py:73-75: a block is kept only with both ID and name
ParseProductsFromMarkdown(blocks) ==
    LET kept == SelectSeq(blocks,
                    LAMBDA p : "id" \in DOMAIN p /\ "name" \in DOMAIN p)
    IN  [i \in DOMAIN kept |-> ParsedFields(kept[i])]

\* ingest.py:99-104: the metadata of one document
Metadata(product) ==
    [id |-> Get(product, "id", ""),
     name |-> Get(product, "name", <<>>),
     category |-> Get(product, "category", ""),
     price |-> Get(product, "price", "")]

\* ingest.py:90-111: one document per product, no filtering
CreateDocumentsFromProducts(products) ==
    [i \in DOMAIN products |-> Metadata(products[i])]

(***************************************************************************)
(* The persisted collection                                                *)
(***************************************************************************)
Absent == [exists |-> FALSE, docs |-> <<>>]

Collection(docs) == [exists |-> TRUE, docs |-> docs]

\* Every distance order of a collection of n entries: the permutations of 1..n
Orders(n) ==
    { f \in [1..n -> 1..n] : \A i, j \in 1..n : f[i] = f[j] => i = j }

(***************************************************************************)
(* search_products (main.py:66-124)                                        *)
(***************************************************************************)
Queries == { <<>>, <<" ">>, <<"a">>, <<" ", "A">>, <<"B">> }

KVals == (0 - 1)..MaxK

Failures == {"none", "provider", "index"}

\* The check without the strip: only the empty string is rejected
IsBlankNoStrip(query) == query = <<>>

\* main.py:77: not query or not query.strip()
IsBlank(query) == query = <<>> \/ Strip(query) = <<>>

\* The search without the extra candidate
OverfetchNone(num_results) == num_results

\* main.py:82: k = num_results + 1
Overfetch(num_results) == num_results + 1

\* An index that pads a short answer with its last entry up to n
IndexQueryPadded(order, n) ==
    IF order = <<>> THEN <<>>
    ELSE [i \in 1..n |-> order[Min(i, Len(order))]]

\* The collection's answer to a query for n nearest entries: the first n of
\* the distance order, all of them when it holds fewer (main.py:82)
IndexQuery(order, n) == SubSeq(order, 1, Min(n, Len(order)))

\* main.py:89-98: the filter loop, from position i with filtered_results = acc
RECURSIVE FilterFrom(_, _, _, _, _, _)
FilterFrom(results, i, acc, docs, query_lower, num_results) ==
    IF i > Len(results) THEN acc
    ELSE IF Normalize(docs[results[i]].name) # query_lower
         THEN LET acc2 == Append(acc, results[i])
              IN  IF Len(acc2) >= num_results THEN acc2
                  ELSE FilterFrom(results, i + 1, acc2, docs, query_lower, num_results)
         ELSE FilterFrom(results, i + 1, acc, docs, query_lower, num_results)

\* The loop without the name comparison: it only truncates
FilterResultsNoExclusion(results, docs, query, num_results) ==
    SubSeq(results, 1, Min(num_results, Len(results)))

FilterResults(results, docs, query, num_results) ==
    FilterFrom(results, 1, <<>>, docs, Normalize(query), num_results)

\* A handler that lets the exception escape
OnExceptionRaised(embedCalls, indexCalls) ==
    [outcome |-> "raised", cands |-> <<>>, hits |-> <<>>,
     embedCalls |-> embedCalls, indexCalls |-> indexCalls]

\* main.py:123-124: every exception becomes a returned message
OnException(embedCalls, indexCalls) ==
    [outcome |-> "error", cands |-> <<>>, hits |-> <<>>,
     embedCalls |-> embedCalls, indexCalls |-> indexCalls]

\* main.py:77-124.  st is the persisted storage the handle reads, order the
\* distance order of its entries for this query, fail the remote or storage
\* failure that happens during the call.  hits and cands are positions in
\* st.docs.  similarity_search first embeds the query, then asks the
\* collection; the collection raises when the directory is gone and when it
\* is asked for zero or fewer entries, and every exception ends in the
\* handler of main.py:123-124.
SearchProducts(query, num_results, st, order, fail) ==
    IF IsBlank(query)
    THEN [outcome |-> "empty_query", cands |-> <<>>, hits |-> <<>>,
          embedCalls |-> 0, indexCalls |-> 0]
    ELSE IF fail = "provider"
    THEN OnException(1, 0)
    ELSE IF fail = "index" \/ ~st.exists \/ Overfetch(num_results) <= 0
    THEN OnException(1, 1)
    ELSE LET results == IndexQuery(order, Overfetch(num_results))
             filtered == FilterResults(results, st.docs, query, num_results)
         IN  IF results = <<>>
             THEN [outcome |-> "no_results", cands |-> results, hits |-> <<>>,
                   embedCalls |-> 1, indexCalls |-> 1]
             ELSE IF filtered = <<>>
             THEN [outcome |-> "no_similar", cands |-> results, hits |-> <<>>,
                   embedCalls |-> 1, indexCalls |-> 1]
             ELSE [outcome |-> "hits", cands |-> results, hits |-> filtered,
                   embedCalls |-> 1, indexCalls |-> 1]

NoSearch ==
    [done |-> FALSE, query |-> <<>>, k |-> 0, fail |-> "none", order |-> <<>>,
     read |-> Absent, pcAtCall |-> "idle", handleAfter |-> "none",
     result |-> [outcome |-> "none", cands |-> <<>>, hits |-> <<>>,
                 embedCalls |-> 0, indexCalls |-> 0]]

\* One call of search_products through the loaded handle (main.py:168-179:
\* the click and submit handlers), its inputs drawn from the given sets
Search(queries, ks, failures) ==
    /\ VECTORSTORE = "Ready"
    /\ ~search.done
    /\ \E query \in queries, num_results \in ks, fail \in failures :
         \E order \in Orders(Len(store.docs)) :
            search' = [done |-> TRUE, query |-> query, k |-> num_results,
                       fail |-> fail, order |-> order, read |-> store,
                       pcAtCall |-> pc, handleAfter |-> VECTORSTORE,
                       result |-> SearchProducts(query, num_results, store, order, fail)]
    /\ UNCHANGED <<store, VECTORSTORE, pc, documents, rebuild, loaded>>

\* The returned HTML is handed to results_output and the request is over
\* (main.py:168-172)
Render ==
    /\ search.done
    /\ search' = NoSearch
    /\ UNCHANGED <<store, VECTORSTORE, pc, documents, rebuild, loaded>>

NoRebuild ==
    [entry |-> "none", input |-> <<>>, result |-> "none", replaced |-> FALSE]

NoLoad == [done |-> FALSE, outcome |-> "none", afterFailedRebuild |-> FALSE,
           existed |-> FALSE]

\* The collections an ingestion can have persisted
Collections ==
    { Collection(CreateDocumentsFromProducts(ps)) : ps \in SeqsUpTo(Products, MaxDocs) }

\* The query service running on a persisted (or since deleted) collection
InitSearch ==
    /\ store \in Collections \cup {Absent}
    /\ VECTORSTORE = "Ready"
    /\ pc = "idle"
    /\ documents = <<>>
    /\ rebuild = NoRebuild
    /\ loaded = NoLoad
    /\ search = NoSearch

NextSearch ==
    \/ Search(Queries, KVals, Failures)
    \/ Render

SpecSearch == InitSearch /\ [][NextSearch]_vars

(***************************************************************************)
(* load_vectorstore (main.py:16-51, called at main.py:59)                  *)
(***************************************************************************)
\* Chroma(collection_name, embedding_function, persist_directory) attaches
\* to the collection in the directory and creates an empty one when the
\* directory holds none (main.py:43-47, ingest.py:146-151)
GetOrCreate(st) == IF st.exists THEN st ELSE Collection(<<>>)

\* embeddings.py:21-27: the constructor of the provider needs the credential
ProviderOutcome(hasKey) == IF hasKey THEN "ok" ELSE "ValueError"

\* Start of the query process: main.py:59 runs load_vectorstore.  hasKey is
\* whether OPENROUTER_API_KEY is set in that process
LoadVectorstore(hasKey) ==
    /\ ~search.done
    /\ loaded' = [done |-> TRUE,
                  outcome |-> IF ProviderOutcome(hasKey) = "ok"
                              THEN "Ready" ELSE ProviderOutcome(hasKey),
                  afterFailedRebuild |-> pc = "idle" /\ rebuild.result = "failed",
                  existed |-> store.exists]
    /\ IF ProviderOutcome(hasKey) = "ok"
       THEN /\ store' = GetOrCreate(store)
            /\ VECTORSTORE' = "Ready"
       ELSE /\ store' = store
            /\ VECTORSTORE' = "none"
    /\ UNCHANGED <<pc, documents, rebuild, search>>

(***************************************************************************)
(* The ingestion process (ingest.py).  Render commutes with every step of  *)
(* this process, so its steps are taken with the last response rendered:   *)
(* a search still falls between any two of them.                           *)
(***************************************************************************)
\* ingest.py:160-193: main() parses the catalogue, builds the documents and
\* calls vectorize_and_save_to_chroma
IngestMain(blocks) ==
    /\ pc = "idle"
    /\ ~search.done
    /\ documents' = CreateDocumentsFromProducts(ParseProductsFromMarkdown(blocks))
    /\ rebuild' = [entry |-> "main", input |-> blocks, result |-> "running",
                   replaced |-> store.docs # <<>> /\ store.docs # documents']
    /\ pc' = "rmtree"
    /\ UNCHANGED <<store, VECTORSTORE, loaded, search>>

\* A caller that hands its records to create_documents_from_products and the
\* documents to vectorize_and_save_to_chroma (ingest.py:80-111, 114-118)
IngestDirect(products) ==
    /\ pc = "idle"
    /\ ~search.done
    /\ documents' = CreateDocumentsFromProducts(products)
    /\ rebuild' = [entry |-> "direct", input |-> products, result |-> "running",
                   replaced |-> store.docs # <<>> /\ store.docs # documents']
    /\ pc' = "rmtree"
    /\ UNCHANGED <<store, VECTORSTORE, loaded, search>>

\* A rebuild that keeps the old directory
RemoveTreeSkipped(st) == st

\* ingest.py:128-131: shutil.rmtree(persist_directory) when it exists
RemoveTree(st) == Absent

RmTree ==
    /\ pc = "rmtree"
    /\ ~search.done
    /\ store' = RemoveTree(store)
    /\ pc' = "embeddings"
    /\ UNCHANGED <<VECTORSTORE, documents, rebuild, loaded, search>>

\* ingest.py:136-141: the provider is constructed; without the credential
\* the constructor raises and the rebuild ends
NewEmbeddings(hasKey) ==
    /\ pc = "embeddings"
    /\ ~search.done
    /\ IF ProviderOutcome(hasKey) = "ok"
       THEN /\ pc' = "create"
            /\ rebuild' = rebuild
       ELSE /\ pc' = "idle"
            /\ rebuild' = [rebuild EXCEPT !.result = "failed"]
    /\ UNCHANGED <<store, VECTORSTORE, documents, loaded, search>>

\* ingest.py:146-151: Chroma.from_documents first opens the collection ...
ChromaCreate ==
    /\ pc = "create"
    /\ ~search.done
    /\ store' = GetOrCreate(store)
    /\ pc' = "add"
    /\ UNCHANGED <<VECTORSTORE, documents, rebuild, loaded, search>>

\* ... then embeds all documents in one provider call and adds them; when
\* the provider fails nothing is added (ingest.py:146-151)
ChromaAdd(ok) ==
    /\ pc = "add"
    /\ ~search.done
    /\ IF ok
       THEN /\ store' = Collection(GetOrCreate(store).docs \o documents)
            /\ rebuild' = [rebuild EXCEPT !.result = "ok"]
       ELSE /\ store' = store
            /\ rebuild' = [rebuild EXCEPT !.result = "failed"]
    /\ pc' = "idle"
    /\ UNCHANGED <<VECTORSTORE, documents, loaded, search>>

(***************************************************************************)
(* The ingestion process and the query process on one persist_directory    *)
(***************************************************************************)
Init ==
    /\ store = Absent
    /\ VECTORSTORE = "none"
    /\ pc = "idle"
    /\ documents = <<>>
    /\ rebuild = NoRebuild
    /\ loaded = NoLoad
    /\ search = NoSearch

Next ==
    \/ \E blocks \in SeqsUpTo(Products, MaxRecords) : IngestMain(blocks)
    \/ \E products \in SeqsUpTo(Products, MaxRecords) : IngestDirect(products)
    \/ RmTree
    \/ \E hasKey \in BOOLEAN : NewEmbeddings(hasKey)
    \/ ChromaCreate
    \/ \E ok \in BOOLEAN : ChromaAdd(ok)
    \/ \E hasKey \in BOOLEAN : LoadVectorstore(hasKey)
    \/ Search({<<"a">>}, {1}, {"none"})
    \/ Render

Spec == Init /\ [][Next]_vars

(***************************************************************************)
(* Properties.  Those about search_products are checked under SpecSearch,  *)
(* those about the rebuild under Spec.                                     *)
(***************************************************************************)
Range(f) == { f[i] : i \in DOMAIN f }

\* A query with a character other than whitespace
NonBlank(query) == \E i \in DOMAIN query : query[i] # " "

Returned == search.result

\* The entries of the collection the search read
ReadDocs == search.read.docs

\* Whether entry p of the collection read has the query's normalized name
Matches(p) == Normalize(ReadDocs[p].name) = Normalize(search.query)

\* The n nearest entries of the collection read, in distance order
Nearest(n) == SubSeq(search.order, 1, Min(n, Len(search.order)))

Position(seq, x) == CHOOSE i \in DOMAIN seq : seq[i] = x

\* h is a subsequence of c, whose elements are distinct
IsSubsequence(h, c) ==
    /\ \A i \in DOMAIN h : h[i] \in Range(c)
    /\ \A i, j \in DOMAIN h : i < j => Position(c, h[i]) < Position(c, h[j])

\* A search that went through to the index and got an answer
Answered ==
    /\ search.done
    /\ NonBlank(search.query)
    /\ search.fail = "none"
    /\ search.read.exists

\* C1: for a non-blank query and k >= 1 the hits are a subsequence, in
\* distance order, of the k+1 candidates fetched from the index, none of them
\* has the query's normalized name, and there are at most k of them.
C1_HitsFilteredSubsequence ==
    (search.done /\ NonBlank(search.query) /\ search.k >= 1) =>
        /\ IsSubsequence(Returned.hits, Nearest(search.k + 1))
        /\ \A i \in DOMAIN Returned.hits : ~Matches(Returned.hits[i])
        /\ Len(Returned.hits) <= search.k

\* A search whose fetched candidates hold an entry named like the query,
\* which is left out, and that still returns k hits
C1_Witness ==
    /\ Answered
    /\ search.k >= 1
    /\ Returned.outcome = "hits"
    /\ Len(Returned.hits) = search.k
    /\ \E i \in DOMAIN Returned.cands : Matches(Returned.cands[i])

\* C4: an empty or all-whitespace query returns the empty-query guidance and
\* calls neither the Embedding Provider nor the Vector Index, for every k.
C4_BlankQueryRejected ==
    (search.done /\ ~NonBlank(search.query)) =>
        /\ Returned.outcome = "empty_query"
        /\ Returned.embedCalls = 0
        /\ Returned.indexCalls = 0

\* An all-whitespace query was answered with the guidance
C4_Witness ==
    /\ search.done
    /\ search.query = <<" ">>
    /\ search.k = MaxK
    /\ Returned.outcome = "empty_query"

\* C6: a non-blank query with k <= 0 is answered with a guidance outcome,
\* never with a populated result list and never with an error message.
C6_NonPositiveKRejected ==
    (Answered /\ search.k <= 0) =>
        /\ Returned.outcome = "empty_query"
        /\ Returned.hits = <<>>

\* The entries of the collection read whose normalized name differs from the
\* normalized query
NonMatching == { p \in DOMAIN ReadDocs : ~Matches(p) }

\* C7: with k greater than the number of indexed records a non-blank query
\* returns every indexed record whose normalized name differs from the
\* query's, each exactly once, with no error and no padding; on an empty
\* index it returns the no-results outcome.
C7_LargeKReturnsAll ==
    (Answered /\ search.k > Len(ReadDocs)) =>
        /\ Returned.outcome \in {"hits", "no_results", "no_similar"}
        /\ Range(Returned.hits) = NonMatching
        /\ Len(Returned.hits) = Cardinality(NonMatching)
        /\ (Returned.outcome = "hits") = (NonMatching # {})
        /\ ReadDocs = <<>> => Returned.outcome = "no_results"

\* k exceeds a collection of two entries, one of which is named like the query
C7_Witness ==
    /\ Answered
    /\ search.k > Len(ReadDocs)
    /\ Len(ReadDocs) = 2
    /\ Returned.outcome = "hits"
    /\ Len(Returned.hits) = 1

\* C9: a failure of the Embedding Provider or of the Vector Index during a
\* search is returned as an error message; the call never raises and the
\* loaded handle stays as it was, so later searches still work.
C9_FailureReturnedAsMessage ==
    search.done =>
        /\ Returned.outcome \in
              {"empty_query", "no_results", "no_similar", "hits", "error"}
        /\ (NonBlank(search.query) /\ (search.fail # "none" \/ ~search.read.exists))
              => Returned.outcome = "error"
        /\ search.handleAfter = "Ready"
        /\ VECTORSTORE = "Ready"

\* The provider failed during a search with a valid k
C9_Witness ==
    /\ search.done
    /\ NonBlank(search.query)
    /\ search.k >= 1
    /\ search.fail = "provider"
    /\ Returned.outcome = "error"

\* The fetched candidates that are not named like the query, in distance order
NearestNonMatching(n) == SelectSeq(Nearest(n), LAMBDA p : ~Matches(p))

MatchesAmong(n) == Cardinality({ p \in Range(Nearest(n)) : Matches(p) })

\* C10: with k >= 1, a non-blank query, at least k+1 indexed records and at
\* most one of the k+1 nearest named like the query, the search returns
\* exactly the first k non-matching candidates; it returns fewer than k hits
\* only when the index holds fewer than k+1 records or two or more of the
\* fetched candidates are named like the query.
C10_OverfetchOne ==
    (Answered /\ search.k >= 1) =>
        /\ (Len(ReadDocs) >= search.k + 1 /\ MatchesAmong(search.k + 1) <= 1) =>
              /\ Returned.outcome = "hits"
              /\ Returned.hits = SubSeq(NearestNonMatching(search.k + 1), 1, search.k)
        /\ Len(Returned.hits) < search.k =>
              \/ Len(ReadDocs) < search.k + 1
              \/ MatchesAmong(search.k + 1) >= 2

\* k = 2 on three entries, the nearest of them named like the query
C10_Witness ==
    /\ Answered
    /\ search.k = 2
    /\ Len(ReadDocs) >= 3
    /\ Matches(search.order[1])
    /\ MatchesAmong(3) = 1
    /\ Len(Returned.hits) = 2

\* The records of the input with both id and name
Admitted(records) ==
    SelectSeq(records, LAMBDA r : "id" \in DOMAIN r /\ "name" \in DOMAIN r)

RebuildSucceeded == pc = "idle" /\ rebuild.result = "ok"

RebuildFailed == pc = "idle" /\ rebuild.result = "failed"

\* C2: after a rebuild whose Embedding Provider fails no collection remains
\* at the storage location, and a later load on it fails with
\* IndexNotFoundError instead of returning a usable handle.
C2_FailedRebuildLeavesNothing ==
    /\ (RebuildFailed /\ ~loaded.afterFailedRebuild) => ~store.exists
    /\ (loaded.done /\ loaded.afterFailedRebuild /\ loaded.outcome # "ValueError")
          => loaded.outcome = "IndexNotFoundError"

\* C3: no search reads the index between the deletion of the old collection
\* and the end of the write of the new one.
C3_RebuildSerialized ==
    (search.done /\ Returned.indexCalls = 1) =>
        search.pcAtCall \notin {"embeddings", "create", "add"}

\* C5: the index holds exactly one entry per input record that has both id
\* and name, and none for a record lacking either, whichever entry point fed
\* the rebuild.
C5_OnlyAdmittedIndexed ==
    RebuildSucceeded =>
        /\ Len(store.docs) = Len(Admitted(rebuild.input))
        /\ \A i \in DOMAIN store.docs :
              store.docs[i].id # "" /\ store.docs[i].name # <<>>

\* The documents the last rebuild was given, from its input alone
InputDocuments ==
    IF rebuild.entry = "main"
    THEN CreateDocumentsFromProducts(ParseProductsFromMarkdown(rebuild.input))
    ELSE CreateDocumentsFromProducts(rebuild.input)

\* C8: after a successful rebuild the collection holds exactly one entry per
\* input unit and nothing of what was persisted before, so its content
\* depends on the last input only.
C8_RebuildIsFullReplace ==
    RebuildSucceeded => store = Collection(InputDocuments)

\* A successful rebuild over a non-empty collection with other content
C8_Witness ==
    /\ RebuildSucceeded
    /\ rebuild.replaced
    /\ store.docs # <<>>

====
